---- MODULE Spec2Model ----
(***************************************************************************)
(* Model of ufcnn.py: the graph built by construct_ufcnn, the causal       *)
(* dilated convolution conv, and mse_loss.                                 *)
(*                                                                         *)
(* An activation tensor is a record [shape, data].  shape is the 4-tuple   *)
(* <<batch, height, time, channels>> (3-tuple without height outside the   *)
(* convolutions).  data maps every position t of the time axis (0-based,   *)
(* as in the source) to a sequence over the channels; the entry of channel *)
(* c is the set of positions of the fed input sequence that the value of   *)
(* the tensor at (t, c) is computed from.  Zeros written by tf.pad and the *)
(* values of weights and biases are computed from no input position.       *)
(*                                                                         *)
(* A tensor of numbers (mse_loss) is a record [shape, vals], vals being    *)
(* the elements in row-major order; a float32 value is a pair <<n, d>>:    *)
(* the rational n/d for d > 0, +inf = <<1,0>>, -inf = <<-1,0>>,            *)
(* NaN = <<0,0>>.                                                          *)
(***************************************************************************)
EXTENDS Integers, Sequences, FiniteSets, TLC

VARIABLES
    pc,          \* position in the function being executed
    args,        \* arguments of the call
    feed,        \* batch_size and n_samples of the sequence fed to x_in
    n_vars,      \* number of tf.Variable objects created so far
    level,       \* loop variable of the weight-creation loop
    H_weights, H_biases, G_weights, G_biases,
    x_in, x, H_outputs, dilation, x_prev,
    pos,         \* position of the zip iterators in the H and G loops
    calls,       \* history: one record per call of conv in construct_ufcnn
    ret          \* returned value

vars == <<pc, args, feed, n_vars, level, H_weights, H_biases, G_weights,
          G_biases, x_in, x, H_outputs, dilation, x_prev, pos, calls, ret>>

\* ---------------------------------------------------------------- bounds
MaxLevels == 3
MaxFilterLength == 3
MaxFilters == 2
MaxInputs == 2
MaxOutputs == 2
MaxBatch == 2
MaxSamples == 11
MaxDilation == 4
MaxElems == 2

Unset == <<>>

\* ------------------------------------------------------------ tensor ops
ShapeError == [shape |-> <<-1>>, data |-> <<>>]

IsError(t) == t.shape = <<-1>>

SetUnion(S) == UNION S

\* tf.placeholder(tf.float32, shape=[None, None, n]) fed with a sequence of
\* shape (batch_size, n_samples, n): position t of channel c holds input t.
Placeholder(batch_size, n_samples, n) ==
    [shape |-> <<batch_size, n_samples, n>>,
     data  |-> [t \in 0..(n_samples - 1) |-> [c \in 1..n |-> {t}]]]

\* tf.expand_dims(x, 1)
ExpandDims1(t) ==
    [shape |-> <<t.shape[1], 1, t.shape[2], t.shape[3]>>, data |-> t.data]

\* tf.squeeze(x, [1])
Squeeze1(t) ==
    IF t.shape[2] # 1 THEN ShapeError
    ELSE [shape |-> <<t.shape[1], t.shape[3], t.shape[4]>>, data |-> t.data]

\* tf.pad(x, padding): padding[d] = <<before, after>> zeros on axis d.
Pad(t, padding) ==
    LET T  == t.shape[3]
        C  == t.shape[4]
        sh == [d \in 1..4 |-> padding[d][1] + t.shape[d] + padding[d][2]]
        tb == padding[3][1]
        cb == padding[4][1]
    IN  [shape |-> sh,
         data  |-> [i \in 0..(sh[3] - 1) |->
                      [c \in 1..sh[4] |->
                         IF i < tb \/ i >= tb + T \/ c <= cb \/ c > cb + C
                         THEN {}
                         ELSE t.data[i - tb][c - cb]]]]

\* tf.nn.atrous_conv2d(x, w, rate, padding='VALID'): the filter taps are
\* rate apart on the height and the time axis; every output channel sums
\* over all taps and all input channels.
AtrousConv2dValid(t, w, rate) ==
    LET fh   == w.shape[1]
        fw   == w.shape[2]
        effh == fh + (fh - 1) * (rate - 1)
        effw == fw + (fw - 1) * (rate - 1)
        oh   == t.shape[2] - effh + 1
        ow   == t.shape[3] - effw + 1
    IN  IF t.shape[4] # w.shape[3] \/ oh < 1 \/ ow < 1 THEN ShapeError
        ELSE [shape |-> <<t.shape[1], oh, ow, w.shape[4]>>,
              data  |-> [i \in 0..(ow - 1) |->
                           [co \in 1..w.shape[4] |->
                              SetUnion({t.data[i + j * rate][ci] :
                                          j \in 0..(fw - 1),
                                          ci \in 1..w.shape[3]})]]]

\* variant: the channel counts of input and filter are not compared
Conv2dValid_unchecked(t, w) ==
    LET fw == w.shape[2]
        ow == t.shape[3] - fw + 1
    IN  [shape |-> <<t.shape[1], t.shape[2], ow, w.shape[4]>>,
         data  |-> [i \in 0..(ow - 1) |->
                      [co \in 1..w.shape[4] |->
                         SetUnion({t.data[i + j][ci] :
                                     j \in 0..(fw - 1),
                                     ci \in 1..t.shape[4]})]]]

\* tf.nn.conv2d(x, w, [1, 1, 1, 1], padding='VALID')
Conv2dValid(t, w) ==
    LET fh == w.shape[1]
        fw == w.shape[2]
        oh == t.shape[2] - fh + 1
        ow == t.shape[3] - fw + 1
    IN  IF t.shape[4] # w.shape[3] \/ oh < 1 \/ ow < 1 THEN ShapeError
        ELSE [shape |-> <<t.shape[1], oh, ow, w.shape[4]>>,
              data  |-> [i \in 0..(ow - 1) |->
                           [co \in 1..w.shape[4] |->
                              SetUnion({t.data[i + j][ci] :
                                          j \in 0..(fw - 1),
                                          ci \in 1..w.shape[3]})]]]

\* x + b with b of shape (out_channels,), broadcast over the leading axes.
BiasAdd(t, b) ==
    IF IsError(t) THEN ShapeError
    ELSE IF b.shape[1] = t.shape[4] \/ b.shape[1] = 1 THEN t
    ELSE IF t.shape[4] = 1
         THEN [shape |-> <<t.shape[1], t.shape[2], t.shape[3], b.shape[1]>>,
               data  |-> [i \in 0..(t.shape[3] - 1) |->
                            [c \in 1..b.shape[1] |-> t.data[i][1]]]]
    ELSE ShapeError

\* tf.nn.relu: elementwise.
Relu(t) == t

\* tf.concat(3, [a, b]): concatenation along the channel axis.
Concat3(a, b) ==
    IF IsError(a) \/ IsError(b) THEN ShapeError
    ELSE IF \E d \in 1..3 : a.shape[d] # b.shape[d] THEN ShapeError
    ELSE [shape |-> <<a.shape[1], a.shape[2], a.shape[3],
                      a.shape[4] + b.shape[4]>>,
          data  |-> [i \in 0..(a.shape[3] - 1) |-> a.data[i] \o b.data[i]]]

\* init_normal(shape, seed): a new tf.Variable; TensorFlow names variables
\* uniquely in creation order.
init_normal(shape, seed, n) == [name |-> n, shape |-> shape, seed |-> seed]

\* variant: the zeros are put after the sequence
ConvPadding_right(filter_length, dil) ==
    <<<<0, 0>>, <<0, 0>>, <<0, dil * (filter_length - 1)>>, <<0, 0>>>>

\* padding argument built by conv
ConvPadding(filter_length, dil) ==
    <<<<0, 0>>, <<0, 0>>, <<dil * (filter_length - 1), 0>>, <<0, 0>>>>

\* variant: the zeros are split between both ends, as padding='SAME' does
conv_same(t, w, b, filter_length, dil) ==
    LET n == dil * (filter_length - 1)
        p == Pad(t, <<<<0, 0>>, <<0, 0>>, <<n \div 2, n - n \div 2>>,
                      <<0, 0>>>>)
    IN  IF dil = 1
        THEN BiasAdd(Conv2dValid(p, w), b)
        ELSE BiasAdd(AtrousConv2dValid(p, w, dil), b)

\* variant: no padding before the convolution
conv_nopad(t, w, b, filter_length, dil) ==
    IF dil = 1
    THEN BiasAdd(Conv2dValid(t, w), b)
    ELSE BiasAdd(AtrousConv2dValid(t, w, dil), b)

conv(t, w, b, filter_length, dil) ==
    LET p == Pad(t, ConvPadding(filter_length, dil))
    IN  IF dil = 1
        THEN BiasAdd(Conv2dValid(p, w), b)
        ELSE BiasAdd(AtrousConv2dValid(p, w, dil), b)

\* ------------------------------------------------------------ float32 ops
NaN == <<0, 0>>
PInf == <<1, 0>>
NInf == <<-1, 0>>
Fin(n) == <<n, 1>>

IsNaN(a) == a[1] = 0 /\ a[2] = 0
IsInf(a) == a[1] # 0 /\ a[2] = 0
IsFinite(a) == a[2] > 0

Abs(n) == IF n < 0 THEN -n ELSE n
Sign(n) == IF n < 0 THEN -1 ELSE IF n > 0 THEN 1 ELSE 0

RECURSIVE Gcd(_, _)
Gcd(a, b) == IF b = 0 THEN a ELSE Gcd(b, a % b)

\* the rational n/d, d > 0, in lowest terms
Rat(n, d) == LET g == Gcd(Abs(n), d) IN <<n \div g, d \div g>>

FAdd(a, b) ==
    IF IsNaN(a) \/ IsNaN(b) THEN NaN
    ELSE IF IsInf(a) /\ IsInf(b) THEN (IF a = b THEN a ELSE NaN)
    ELSE IF IsInf(a) THEN a
    ELSE IF IsInf(b) THEN b
    ELSE Rat(a[1] * b[2] + b[1] * a[2], a[2] * b[2])

FNeg(a) == <<-a[1], a[2]>>

FSub(a, b) == FAdd(a, FNeg(b))

FMul(a, b) ==
    IF IsNaN(a) \/ IsNaN(b) THEN NaN
    ELSE IF IsInf(a) \/ IsInf(b)
         THEN (IF a[1] = 0 \/ b[1] = 0 THEN NaN
               ELSE <<Sign(a[1]) * Sign(b[1]), 0>>)
    ELSE Rat(a[1] * b[1], a[2] * b[2])

FDiv(a, b) ==
    IF IsNaN(a) \/ IsNaN(b) THEN NaN
    ELSE IF IsInf(a) /\ IsInf(b) THEN NaN
    ELSE IF IsInf(b) THEN Fin(0)
    ELSE IF IsInf(a) THEN <<Sign(a[1]) * (IF b[1] < 0 THEN -1 ELSE 1), 0>>
    ELSE IF b[1] = 0 THEN (IF a[1] = 0 THEN NaN ELSE <<Sign(a[1]), 0>>)
    ELSE Rat(Sign(b[1]) * a[1] * b[2], a[2] * Abs(b[1]))

RECURSIVE Product(_)
Product(s) == IF s = <<>> THEN 1 ELSE Head(s) * Product(Tail(s))

\* variant: the sum instead of the difference
Subtract_plus(a, b) ==
    [shape |-> a.shape,
     vals  |-> [i \in 1..Len(a.vals) |-> FAdd(a.vals[i], b.vals[i])]]

\* a - b, elementwise, for tensors of identical shapes
Subtract(a, b) ==
    [shape |-> a.shape,
     vals  |-> [i \in 1..Len(a.vals) |-> FSub(a.vals[i], b.vals[i])]]

\* tf.square
Square(a) ==
    [shape |-> a.shape,
     vals  |-> [i \in 1..Len(a.vals) |-> FMul(a.vals[i], a.vals[i])]]

RECURSIVE FSum(_)
FSum(s) == IF s = <<>> THEN Fin(0) ELSE FAdd(Head(s), FSum(Tail(s)))

\* tf.reduce_mean over all axes: the sum of the elements divided by their
\* number.
ReduceMean(a) == FDiv(FSum(a.vals), Fin(Product(a.shape)))

mse_loss(y_hat, y) == ReduceMean(Square(Subtract(y_hat, y)))

\* ------------------------------------------------------- input domains
RandomSeeds == {0}

ConstructArgs ==
    [n_inputs : 1..MaxInputs, n_outputs : 1..MaxOutputs,
     n_levels : 0..MaxLevels, n_filters : 1..MaxFilters,
     filter_length : 1..MaxFilterLength, random_seed : RandomSeeds]

Feeds == [batch_size : 1..MaxBatch, n_samples : 1..MaxSamples]

ConvArgs ==
    {[x |-> ExpandDims1(Placeholder(1, T, cx)),
      w |-> init_normal(<<1, k, ci, co>>, 0, 0),
      b |-> init_normal(<<co>>, 0, 1),
      filter_length |-> k, dilation |-> d] :
        T \in 1..MaxSamples, cx \in 1..MaxInputs, k \in 1..MaxFilterLength,
        ci \in 1..MaxInputs, co \in 1..MaxOutputs, d \in 1..MaxDilation}

FloatVals == {Fin(-1), Fin(0), Fin(2), NaN, PInf, NInf}

Shapes ==
    {s \in {<<>>} \cup {<<a>> : a \in 0..MaxElems}
             \cup {<<a, b>> : a, b \in 0..MaxElems} :
        Product(s) <= MaxElems}

TensorsOf(s) == [shape : {s}, vals : [1..Product(s) -> FloatVals]]

\* y_hat and y of the identical shape s
MseArgs(s) == [y_hat : TensorsOf(s), y : TensorsOf(s)]

\* ------------------------------------------------------------ the program
Locals0 ==
    /\ n_vars = 0
    /\ level = 0
    /\ H_weights = <<>>
    /\ H_biases = <<>>
    /\ G_weights = <<>>
    /\ G_biases = <<>>
    /\ x_in = Unset
    /\ x = Unset
    /\ H_outputs = <<>>
    /\ dilation = 0
    /\ x_prev = <<>>
    /\ pos = 0
    /\ calls = <<>>
    /\ ret = Unset

\* A call of construct_ufcnn (the graph is then fed a sequence), of conv, or
\* of mse_loss.
Init ==
    /\ Locals0
    /\ \/ /\ pc = "create_layers"
          /\ args \in ConstructArgs
          /\ feed \in Feeds
       \/ /\ pc = "conv"
          /\ args \in ConvArgs
          /\ feed = Unset
       \/ /\ pc = "mse_loss"
          /\ \E s \in Shapes : args \in MseArgs(s)
          /\ feed = Unset

\* shape of the weight of H created at iteration lv (0-based) of the loop
HWeightShape(lv, a) ==
    IF lv = 0
    THEN <<1, a.filter_length, a.n_inputs, a.n_filters>>
    ELSE <<1, a.filter_length, a.n_filters, a.n_filters>>

\* variant: the single-input G is taken to be the first one
GWeightShape_first(lv, a) ==
    IF lv = 0
    THEN <<1, a.filter_length, a.n_filters, a.n_filters>>
    ELSE <<1, a.filter_length, 2 * a.n_filters, a.n_filters>>

\* shape of the weight of G created at iteration lv (0-based) of the loop
GWeightShape(lv, a) ==
    IF lv = a.n_levels - 1
    THEN <<1, a.filter_length, a.n_filters, a.n_filters>>
    ELSE <<1, a.filter_length, 2 * a.n_filters, a.n_filters>>

\* one iteration of "for level in range(n_levels)"
CreateLevel ==
    /\ pc = "create_layers"
    /\ level < args.n_levels
    /\ H_weights' = Append(H_weights,
           init_normal(HWeightShape(level, args), args.random_seed, n_vars))
    /\ H_biases' = Append(H_biases,
           init_normal(<<args.n_filters>>, args.random_seed, n_vars + 1))
    /\ G_weights' = Append(G_weights,
           init_normal(GWeightShape(level, args), args.random_seed,
                       n_vars + 2))
    /\ G_biases' = Append(G_biases,
           init_normal(<<args.n_filters>>, args.random_seed, n_vars + 3))
    /\ n_vars' = n_vars + 4
    /\ level' = level + 1
    /\ UNCHANGED <<pc, args, feed, x_in, x, H_outputs, dilation, x_prev, pos,
                   calls, ret>>

\* x_in = placeholder; x = expand_dims(x_in, 1); H_outputs = []; dilation = 1
EnterAnalysis ==
    /\ pc = "create_layers"
    /\ level >= args.n_levels
    /\ x_in' = Placeholder(feed.batch_size, feed.n_samples, args.n_inputs)
    /\ x' = ExpandDims1(x_in')
    /\ H_outputs' = <<>>
    /\ dilation' = 1
    /\ pos' = 1
    /\ pc' = "analysis"
    /\ UNCHANGED <<args, feed, n_vars, level, H_weights, H_biases, G_weights,
                   G_biases, x_prev, calls, ret>>

\* record of a call conv(t, w, b, filter_length, dil) and of what it returned;
\* st is the loop that made it, lv the level of the tree: the H of level lv
\* produces H_outputs[lv] and the G of level lv consumes it
Call(st, lv, t, w, b, dil, out) ==
    [stage |-> st, level |-> lv, w |-> w, b |-> b, dilation |-> dil,
     in_shape |-> t.shape, out_shape |-> out.shape]

DilationAfterH(d) == d * 2

\* variant: the dilation is not halved
DilationAfterG_keep(d) == d

DilationAfterG(d) == d \div 2

\* one iteration of "for w, b in zip(H_weights, H_biases)"
AnalysisStep ==
    /\ pc = "analysis"
    /\ pos <= Len(H_weights) /\ pos <= Len(H_biases)
    /\ LET w   == H_weights[pos]
           b   == H_biases[pos]
           out == Relu(conv(x, w, b, args.filter_length, dilation))
       IN  /\ calls' = Append(calls, Call("H", Len(H_outputs) + 1, x, w, b, dilation, out))
           /\ x' = out
           /\ IF IsError(out)
              THEN pc' = "error" /\ UNCHANGED <<H_outputs, dilation, pos>>
              ELSE /\ pc' = pc
                   /\ H_outputs' = Append(H_outputs, out)
                   /\ dilation' = DilationAfterH(dilation)
                   /\ pos' = pos + 1
    /\ UNCHANGED <<args, feed, n_vars, level, H_weights, H_biases, G_weights,
                   G_biases, x_in, x_prev, ret>>

\* x_prev = None, and the reversed iterators are created
EnterSynthesis ==
    /\ pc = "analysis"
    /\ ~(pos <= Len(H_weights) /\ pos <= Len(H_biases))
    /\ x_prev' = <<>>
    /\ pos' = 1
    /\ pc' = "synthesis"
    /\ UNCHANGED <<args, feed, n_vars, level, H_weights, H_biases, G_weights,
                   G_biases, x_in, x, H_outputs, dilation, calls, ret>>

\* reversed(s)[i], 1-based
Reversed(s, i) == s[Len(s) - i + 1]

SynthesisMore ==
    pos <= Len(H_outputs) /\ pos <= Len(G_weights) /\ pos <= Len(G_biases)

\* one iteration of "for x, w, b in zip(reversed(H_outputs),
\* reversed(G_weights), reversed(G_biases))"
SynthesisStep ==
    /\ pc = "synthesis"
    /\ SynthesisMore
    /\ LET xh  == Reversed(H_outputs, pos)
           w   == Reversed(G_weights, pos)
           b   == Reversed(G_biases, pos)
           xc  == IF x_prev # <<>> THEN Concat3(x_prev[1], xh) ELSE xh
           out == IF IsError(xc) THEN ShapeError
                  ELSE Relu(conv(xc, w, b, args.filter_length, dilation))
       IN  /\ calls' = Append(calls,
                  Call("G", Len(H_outputs) - pos + 1, xc, w, b, dilation, out))
           /\ x' = out
           /\ IF IsError(out)
              THEN pc' = "error" /\ UNCHANGED <<x_prev, dilation, pos>>
              ELSE /\ pc' = pc
                   /\ x_prev' = <<out>>
                   /\ dilation' = DilationAfterG(dilation)
                   /\ pos' = pos + 1
    /\ UNCHANGED <<args, feed, n_vars, level, H_weights, H_biases, G_weights,
                   G_biases, x_in, H_outputs, ret>>

\* variant: the final layer is left out
ListHGC_noC(H, G, C) == H \o G

\* variant: the G layers come first
ListHGC_GH(H, G, C) == G \o H \o <<C>>

\* weights = H_weights + G_weights + [C_weights], and likewise the biases
ListHGC(H, G, C) == H \o G \o <<C>>

\* C_weights, C_biases, the final conv, squeeze, y, and the return
Finish ==
    /\ pc = "synthesis"
    /\ ~SynthesisMore
    /\ LET C_weights == init_normal(<<1, args.filter_length, args.n_filters,
                                      args.n_outputs>>, args.random_seed,
                                    n_vars)
           C_biases  == init_normal(<<args.n_outputs>>, args.random_seed,
                                    n_vars + 1)
           out       == conv(x, C_weights, C_biases, args.filter_length, 1)
           y_hat     == IF IsError(out) THEN ShapeError ELSE Squeeze1(out)
           y         == Placeholder(feed.batch_size, feed.n_samples,
                                    args.n_outputs)
       IN  /\ n_vars' = n_vars + 2
           /\ calls' = Append(calls,
                  Call("C", 0, x, C_weights, C_biases, 1, out))
           /\ IF IsError(y_hat)
              THEN pc' = "error" /\ ret' = ret
              ELSE /\ pc' = "done"
                   /\ ret' = [x |-> x_in, y_hat |-> y_hat, y |-> y,
                              weights |-> ListHGC(H_weights, G_weights,
                                                  C_weights),
                              biases |-> ListHGC(H_biases, G_biases,
                                                 C_biases)]
    /\ UNCHANGED <<args, feed, level, H_weights, H_biases, G_weights,
                   G_biases, x_in, x, H_outputs, dilation, x_prev, pos>>

\* a call conv(x, w, b, filter_length, dilation)
ConvCall ==
    /\ pc = "conv"
    /\ ret' = conv(args.x, args.w, args.b, args.filter_length, args.dilation)
    /\ pc' = "conv_done"
    /\ UNCHANGED <<args, feed, n_vars, level, H_weights, H_biases, G_weights,
                   G_biases, x_in, x, H_outputs, dilation, x_prev, pos, calls>>

\* a call mse_loss(y_hat, y)
MseLossCall ==
    /\ pc = "mse_loss"
    /\ ret' = mse_loss(args.y_hat, args.y)
    /\ pc' = "mse_done"
    /\ UNCHANGED <<args, feed, n_vars, level, H_weights, H_biases, G_weights,
                   G_biases, x_in, x, H_outputs, dilation, x_prev, pos, calls>>

Next ==
    \/ CreateLevel
    \/ EnterAnalysis
    \/ AnalysisStep
    \/ EnterSynthesis
    \/ SynthesisStep
    \/ Finish
    \/ ConvCall
    \/ MseLossCall

Spec == Init /\ [][Next]_vars

\* ------------------------------------------------------------- properties
InConstruct == pc \in {"create_layers", "analysis", "synthesis", "done", "error"}

\* the positions of the fed sequence
Times == 0..(feed.n_samples - 1)

\* C1: in the network returned by construct_ufcnn with n_levels >= 1, two fed
\* sequences that agree at all times < t (they may differ anywhere in
\* t..n_samples-1) give the same y_hat at all times < t: no value of y_hat at
\* a time u < t is computed from an input position >= t.
C1_Causal ==
    (pc = "done" /\ args.n_levels >= 1) =>
        \A t \in Times : \A u \in 0..(t - 1) :
            \A c \in 1..ret.y_hat.shape[3] :
                ret.y_hat.data[u][c] \cap (t..(feed.n_samples - 1)) = {}

C1_Witness ==
    /\ pc = "done"
    /\ args.n_levels >= 2
    /\ args.filter_length >= 2
    /\ \E u \in Times : \E s \in 0..(u - 1) : s \in ret.y_hat.data[u][1]

\* C2: y_hat has shape (batch, time, n_outputs) for a fed input of shape
\* (batch, time, n_inputs), and every call of conv in construct_ufcnn that
\* returns a tensor returns one with the batch and time sizes of the input
\* and height 1.
C2_Shape ==
    /\ \A i \in 1..Len(calls) :
          ~IsError([shape |-> calls[i].out_shape]) =>
              /\ calls[i].out_shape[1] = feed.batch_size
              /\ calls[i].out_shape[2] = 1
              /\ calls[i].out_shape[3] = feed.n_samples
    /\ pc = "done" =>
          /\ ret.x.shape = <<feed.batch_size, feed.n_samples, args.n_inputs>>
          /\ ret.y_hat.shape =
                 <<feed.batch_size, feed.n_samples, args.n_outputs>>
          /\ DOMAIN ret.y_hat.data = Times

C2_Witness ==
    /\ pc = "done"
    /\ args.n_levels >= 2
    /\ args.filter_length >= 2
    /\ feed.batch_size >= 2
    /\ feed.n_samples >= 2
    /\ args.n_outputs # args.n_inputs
    /\ args.n_outputs # args.n_filters
    /\ ret.y_hat.shape = <<feed.batch_size, feed.n_samples, args.n_outputs>>

\* C3: the returned weights and biases lists have length 2 * n_levels + 1.
C3_ListLength ==
    pc = "done" =>
        /\ Len(ret.weights) = 2 * args.n_levels + 1
        /\ Len(ret.biases) = 2 * args.n_levels + 1

C3_Witness ==
    /\ pc = "done"
    /\ args.n_levels = MaxLevels
    /\ Len(ret.weights) = 2 * MaxLevels + 1

\* list position (1-based) that the claimed order gives to a layer
ListPosition(st, lv) ==
    IF st = "H" THEN lv
    ELSE IF st = "G" THEN args.n_levels + lv
    ELSE 2 * args.n_levels + 1

\* C4: in weights and in biases, the H of level l (the l-th analysis layer)
\* is at 0-based position l-1, the G of level l (the synthesis layer that
\* consumes the output of H_l) at 0-based position n_levels + l - 1, C at the
\* last position; weights[i] and biases[i] are used by the same call of conv;
\* no variable is listed twice.
C4_ListOrder ==
    pc = "done" =>
        /\ Len(calls) = Len(ret.weights)
        /\ \A i \in 1..Len(calls) :
              /\ ListPosition(calls[i].stage, calls[i].level)
                     \in 1..Len(ret.weights)
              /\ ret.weights[ListPosition(calls[i].stage, calls[i].level)]
                     = calls[i].w
              /\ ret.biases[ListPosition(calls[i].stage, calls[i].level)]
                     = calls[i].b
        /\ \A l \in 1..args.n_levels :
              /\ calls[l].stage = "H" /\ calls[l].level = l
              /\ calls[args.n_levels + l].stage = "G"
              /\ calls[args.n_levels + l].level = args.n_levels - l + 1
        /\ \A i, j \in 1..Len(ret.weights) :
              /\ i # j => ret.weights[i].name # ret.weights[j].name
              /\ i # j => ret.biases[i].name # ret.biases[j].name
              /\ ret.weights[i].name # ret.biases[j].name

C4_Witness ==
    /\ pc = "done"
    /\ args.n_levels >= 3
    /\ calls[args.n_levels + 1].stage = "G"
    /\ calls[args.n_levels + 1].w = ret.weights[2 * args.n_levels]

\* C5 as claimed: mse_loss(y, y) is 0 for every tensor y, tensors with a
\* zero-sized axis included.
C5_SelfZero_Any ==
    (pc = "mse_done" /\ args.y_hat = args.y) => ret = Fin(0)

\* C5 as amended: mse_loss(y, y) is 0 for every tensor y that has at least
\* one element and only finite elements; it is NaN for a tensor with a
\* zero-sized axis and for a tensor with an infinite or NaN element.
C5_SelfZero_Finite ==
    (pc = "mse_done" /\ args.y_hat = args.y) =>
        IF /\ Product(args.y.shape) > 0
           /\ \A i \in 1..Len(args.y.vals) : IsFinite(args.y.vals[i])
        THEN ret = Fin(0)
        ELSE ret = NaN

C5_Witness ==
    /\ pc = "mse_done"
    /\ args.y_hat = args.y
    /\ Len(args.y.vals) >= 2
    /\ \A i \in 1..Len(args.y.vals) :
          IsFinite(args.y.vals[i]) /\ args.y.vals[i] # Fin(0)
    /\ ret = Fin(0)

\* C6: H of level l and G of level l are both applied with dilation
\* 2^(l-1).
C6_DilationSchedule ==
    \A i \in 1..Len(calls) :
        calls[i].stage \in {"H", "G"} =>
            calls[i].dilation = 2 ^ (calls[i].level - 1)

\* number of input channels the claim gives to a layer
ClaimedChannels(st, lv) ==
    IF st = "H" THEN (IF lv = 1 THEN args.n_inputs ELSE args.n_filters)
    ELSE IF st = "G"
         THEN (IF lv = args.n_levels THEN args.n_filters
               ELSE 2 * args.n_filters)
    ELSE args.n_filters

\* C7: for n_levels >= 1 every call of conv in construct_ufcnn gets a tensor
\* whose channel count is the in_channels of its weight: n_inputs for H1,
\* n_filters for the other H, n_filters for the deepest G, 2 * n_filters for
\* the other G, n_filters for C; construction never ends in a shape error.
C7_Channels ==
    (InConstruct /\ args.n_levels >= 1) =>
        /\ pc # "error"
        /\ \A i \in 1..Len(calls) :
              /\ Len(calls[i].in_shape) = 4
              /\ calls[i].in_shape[4] = calls[i].w.shape[3]
              /\ calls[i].in_shape[4]
                     = ClaimedChannels(calls[i].stage, calls[i].level)

C7_Witness ==
    /\ pc = "done"
    /\ args.n_levels >= 3
    /\ args.n_inputs # args.n_filters
    /\ \E i \in 1..Len(calls) :
          calls[i].stage = "G" /\ calls[i].in_shape[4] = 2 * args.n_filters

\* C8: conv pads the time axis with dilation * (filter_length - 1) zeros on
\* the left and none on the right and pads no other axis; its output has the
\* batch, height and time sizes of its input; the output at time t is
\* computed from the inputs at the times t - j * dilation, j in
\* 0..filter_length-1, that are >= 0, hence from no time > t.
C8_Conv ==
    (pc = "conv_done" /\ ~IsError(ret)) =>
        LET T == args.x.shape[3]
            k == args.filter_length
            d == args.dilation
            p == Pad(args.x, ConvPadding(k, d))
        IN  /\ p.shape = <<args.x.shape[1], args.x.shape[2], T + d * (k - 1),
                           args.x.shape[4]>>
            /\ \A i \in 0..(d * (k - 1) - 1) :
                   \A c \in 1..p.shape[4] : p.data[i][c] = {}
            /\ \A c \in 1..p.shape[4] : p.data[T + d * (k - 1) - 1][c] = {T - 1}
            /\ ret.shape = <<args.x.shape[1], args.x.shape[2], T,
                             args.w.shape[4]>>
            /\ DOMAIN ret.data = 0..(T - 1)
            /\ \A t \in 0..(T - 1) : \A c \in 1..ret.shape[4] :
                   /\ ret.data[t][c]
                          = {t - j * d : j \in 0..(k - 1)} \cap 0..(T - 1)
                   /\ \A s \in ret.data[t][c] : s <= t

C8_Witness ==
    /\ pc = "conv_done"
    /\ ~IsError(ret)
    /\ args.dilation > 1
    /\ args.filter_length >= 3
    /\ \E t \in 0..(args.x.shape[3] - 1) :
          /\ t - args.dilation >= 0
          /\ t - 2 * args.dilation < 0
          /\ ret.data[t][1] = {t, t - args.dilation}

\* look-back of the network as claimed
ClaimedLookback == (args.filter_length - 1) * (3 * 2 ^ args.n_levels - 2)

RECURSIVE SumLookback(_)
SumLookback(cs) ==
    IF cs = <<>> THEN 0
    ELSE Head(cs).dilation * (args.filter_length - 1) + SumLookback(Tail(cs))

C10_NoLevels ==
    (pc \in {"done", "error"} /\ args.n_levels = 0) =>
        /\ H_weights = <<>> /\ H_biases = <<>>
        /\ G_weights = <<>> /\ G_biases = <<>>
        /\ H_outputs = <<>>
        /\ Len(calls) = 1
        /\ calls[1].stage = "C"
        /\ calls[1].in_shape
               = <<feed.batch_size, 1, feed.n_samples, args.n_inputs>>
        /\ calls[1].w.shape[3] = args.n_filters
        /\ (pc = "done") <=> (args.n_inputs = args.n_filters)
        /\ pc = "error" => ret = Unset

C10_Witness ==
    /\ pc = "error"
    /\ args.n_levels = 0
    /\ args.n_inputs # args.n_filters
    /\ ret = Unset

====
